---- MODULE Spec2Model ----
(***************************************************************************)
(* Model of cyfxuvcinmem.c: the UVC streamer that sends video frames held *)
(* in memory through an isochronous IN endpoint.                           *)
(*                                                                         *)
(* Three contexts run the code:                                            *)
(*   - the application thread UVCAppThread_Entry (the producer); every     *)
(*     access it makes to a shared variable, to the DMA channel or to an   *)
(*     endpoint register is a step of its own (variable pc);               *)
(*   - the USB event callback CyFxUVCApplnUSBEventCB, which runs start and *)
(*     stop; it runs in the USB driver thread, which preempts the          *)
(*     application thread, so one event is one atomic action;              *)
(*   - the DMA callback CyFxUVCAppDmaCallback, raised when the consumer    *)
(*     socket has drained a buffer; it preempts the application thread as  *)
(*     well and is one atomic action.                                      *)
(* The DMA channel, the endpoint registers and the USB speed belong to    *)
(* the SDK and the hardware; they are modelled by what the calls of this   *)
(* file can observe of them.                                               *)
(***************************************************************************)
EXTENDS Integers, Sequences, FiniteSets, TLC

(***************************************************************************)
(* Bounds of the model.                                                    *)
(***************************************************************************)
\* number of DMA buffers of the streaming channel in the model
MaxBufCount == 2
\* the EPM data sizes that are sampled reach MaxKB * 1024 bytes
MaxKB == 3

(***************************************************************************)
(* The build.  The size of a DMA buffer (cyfxuvcinmem.h) and the frames    *)
(* stored in glUVCVidFrames (cyfxuvcvidframes.c) are fixed when the        *)
(* firmware is built; build holds them and no action changes it.           *)
(***************************************************************************)
VARIABLE build

\* the build the behaviours of Spec run: a frame of three chunks, a frame
\* of one chunk and a frame that fills its two chunks exactly
StoredBuild == [frames |-> <<8220, 200, 6120>>, bufSize |-> 3 * 1024]

\* a build with three frames of 5000, 200 and 10000 bytes and buffers that
\* take 1000 bytes of payload behind the 12 bytes of header
ScenarioBuild == [frames |-> <<5000, 200, 10000>>, bufSize |-> 1000 + 12]

(***************************************************************************)
(* Constants of cyfxuvcinmem.h (the header is not part of the sources).    *)
(***************************************************************************)
CY_FX_UVC_MAX_HEADER == 12
CY_FX_UVC_HEADER_DEFAULT_BFH == 140
CY_FX_UVC_HEADER_FRAME == 0
CY_FX_UVC_HEADER_FRAME_ID == 1
CY_FX_UVC_HEADER_EOF == 2
CY_FX_EP_ISO_VIDEO_PKTS_COUNT == 3
CY_FX_EP_ISO_VIDEO_SS_MULT == 1
CY_FX_EP_ISO_VIDEO_SS_BURST == 1
CY_FX_UVC_STREAM_BUF_SIZE == build.bufSize
CY_FX_UVC_STREAM_BUF_COUNT == MaxBufCount
CY_FX_UVC_INTERFACE_VS == 1
\* lengths of the frames stored in glUVCVidFrames, in playlist order
glVidFrameLen == build.frames
CY_FX_UVC_MAX_VID_FRAMES == Len(glVidFrameLen)

(***************************************************************************)
(* Values of the EEPM_ENDPOINT register that the hardware may show:       *)
(* the READY bit and the 16 bit DSIZE field.                               *)
(***************************************************************************)
DsizeSamples ==
    {0, 2500} \cup {(k * 1024) + d : k \in 1..MaxKB, d \in {-1, 0}}

EpmValues ==
    [ready : {FALSE}, dsize : {2500}] \cup
    [ready : {TRUE}, dsize : DsizeSamples]

NoEpm == [ready |-> FALSE, dsize |-> 0]

VARIABLES
    \* shared program state
    glIsApplnActive,    \* line 102
    CurrentMultVal,     \* line 87
    glUVCHeader1,       \* glUVCHeader[1], the bit field byte of the template
    uvcVideoEpCfg,      \* line 85: [enable, isoPkts, burstLen]
    \* SDK and hardware
    chState,            \* glChHandleUVCStream: "none", "created", "active"
    inflight,           \* buffers committed and not yet drained
    epEnabled,          \* endpoint enable as last configured
    cfgMult,            \* MULT field of the DEV_EPI_CS register
    epNak,              \* endpoint is in the forced NAK state
    usbSpeed,           \* CyU3PUsbGetSpeed (): "HS" or "SS"
    \* the producer UVCAppThread_Entry
    pc,
    status,
    frameStart,
    frameIndex,
    frameOffset,
    commitLength,
    isEofChunk,         \* which branch of line 671 the chunk took
    bufHdr1,            \* byte 1 of the header stamped into the buffer
    dmaHeld,            \* dmaBuffer: "none", "cur", "stale"
    wake,               \* a blocked GetBuffer was aborted by a destroy
    val2,               \* locals of the producer's CyFxUvcAppSetMultByEpm
    multVal,
    \* history of the run, used to state the properties
    frSum,              \* bytes committed for the current frame
    frCnt,              \* chunks committed for the current frame
    frEofs,             \* of which marked EOF
    framesDone,         \* frames completed since the stream became active, mod 2
    firstPending,       \* no chunk was committed since the last start
    failure,            \* why the acquire or commit of this pass failed
    cmpSnap             \* CurrentMultVal and MULT at the comparison of line 690

progVars == <<glIsApplnActive, CurrentMultVal, glUVCHeader1, uvcVideoEpCfg>>
hwVars == <<chState, inflight, epEnabled, cfgMult, epNak, usbSpeed>>
prodVars == <<pc, status, frameStart, frameIndex, frameOffset, commitLength,
              isEofChunk, bufHdr1, dmaHeld, wake, val2, multVal>>
histVars == <<frSum, frCnt, frEofs, framesDone, firstPending, failure, cmpSnap>>
vars == <<progVars, hwVars, prodVars, histVars, build>>

CY_U3P_MIN(a, b) == IF a < b THEN a ELSE b
CY_U3P_MAX(a, b) == IF a > b THEN a ELSE b

NoSnap == [cur |-> -1, cfg |-> -1]

(***************************************************************************)
(* CyFxUvcAppSetMultByEpm, lines 124-147.                                  *)
(***************************************************************************)
\* mutant of RawMultVal: the packet count rounded up instead of floor + 1
RawMultVal_Ceil(epm) ==
    IF epm.ready THEN ((epm.dsize + 1023) \div 1024) % 256 ELSE 0

\* lines 130-137: multVal (uint8_t) from the EPM register value
RawMultVal(epm) ==
    IF epm.ready THEN ((epm.dsize \div 1024) + 1) % 256 ELSE 0

\* mutant of ClampMult: the lower limit of line 143 is missing
ClampMult_NoLowerLimit(m) == CY_U3P_MIN(m, 3)

\* lines 142-143
ClampMult(m) == CY_U3P_MAX(CY_U3P_MIN(m, 3), 1)

\* lines 145-146: the MULT field written back (the field is 2 bits wide)
MultField(m) == ClampMult(m) % 4

(***************************************************************************)
(* CyFxUVCAddHeader, lines 614-632, on byte 1 of the header.               *)
(***************************************************************************)
BitSet(v, b) == (v \div b) % 2 = 1
XorBit(v, b) == IF BitSet(v, b) THEN v - b ELSE v + b
OrBit(v, b) == IF BitSet(v, b) THEN v ELSE v + b

\* line 627: the template after the stamp
HeaderAfterStamp(hdr, frameInd) ==
    IF frameInd = CY_FX_UVC_HEADER_EOF
    THEN XorBit(hdr, CY_FX_UVC_HEADER_FRAME_ID)
    ELSE hdr

\* lines 621 and 630: byte 1 of the buffer after the stamp
BufferAfterStamp(hdr, frameInd) ==
    IF frameInd = CY_FX_UVC_HEADER_EOF
    THEN OrBit(hdr, CY_FX_UVC_HEADER_EOF)
    ELSE hdr

(***************************************************************************)
(* The chunking of UVCAppThread_Entry.                                     *)
(***************************************************************************)
\* mutant of PayloadCap: the room of the header is not taken off
PayloadCap_NoHeader == CY_FX_UVC_STREAM_BUF_SIZE

PayloadCap == CY_FX_UVC_STREAM_BUF_SIZE - CY_FX_UVC_MAX_HEADER

\* mutant of IsMidChunk: a chunk that ends on the last byte of the frame is
\* taken for an intermediate one
IsMidChunk_Inclusive(off, idx) == off + PayloadCap <= glVidFrameLen[idx + 1]

\* line 671; frameIndex counts from 0, the sequence from 1
IsMidChunk(off, idx) == off + PayloadCap < glVidFrameLen[idx + 1]

\* mutant of CommitLengthOf: the last chunk is committed without its header
CommitLengthOf_NoHeader(off, idx) ==
    IF IsMidChunk(off, idx)
    THEN CY_FX_UVC_STREAM_BUF_SIZE % 65536
    ELSE (glVidFrameLen[idx + 1] - off) % 65536

\* mutant of CommitLengthOf: an intermediate chunk is committed with the
\* length of its payload, the header not counted
CommitLengthOf_MidPayloadOnly(off, idx) ==
    IF IsMidChunk(off, idx)
    THEN PayloadCap % 65536
    ELSE ((glVidFrameLen[idx + 1] - off) + CY_FX_UVC_MAX_HEADER) % 65536

\* lines 684 and 730 (commitLength is a uint16_t)
CommitLengthOf(off, idx) ==
    IF IsMidChunk(off, idx)
    THEN CY_FX_UVC_STREAM_BUF_SIZE % 65536
    ELSE ((glVidFrameLen[idx + 1] - off) + CY_FX_UVC_MAX_HEADER) % 65536

\* lines 690 and 740: the MULT value the chunk asks for
ImpliedMult(len, eof) ==
    IF eof THEN (len \div 1024) + 1 ELSE CY_FX_EP_ISO_VIDEO_PKTS_COUNT


(***************************************************************************)
(* State after construction: the thread has run CyFxUVCApplnDebugInit and  *)
(* CyFxUVCApplnInit and stands at the top of its for (;;) loop.  The reset *)
(* value of the MULT field and the speed of the first connection are the  *)
(* hardware's.                                                             *)
(***************************************************************************)
Init ==
    /\ glIsApplnActive = FALSE
    /\ CurrentMultVal = 1
    /\ glUVCHeader1 = CY_FX_UVC_HEADER_DEFAULT_BFH
    /\ uvcVideoEpCfg = [enable |-> FALSE, isoPkts |-> 0, burstLen |-> 0]
    /\ chState = "none"
    /\ inflight = 0
    /\ epEnabled = FALSE
    /\ cfgMult \in {0, 1}
    /\ epNak = FALSE
    /\ usbSpeed \in {"HS", "SS"}
    /\ pc = "reset"
    /\ status = "SUCCESS"
    /\ frameStart = 0
    /\ frameIndex = 0
    /\ frameOffset = 0
    /\ commitLength = 0
    /\ isEofChunk = FALSE
    /\ bufHdr1 = 0
    /\ dmaHeld = "none"
    /\ wake = FALSE
    /\ val2 = NoEpm
    /\ multVal = 0
    /\ frSum = 0
    /\ frCnt = 0
    /\ frEofs = 0
    /\ framesDone = 0
    /\ firstPending = FALSE
    /\ failure = "none"
    /\ cmpSnap = NoSnap
    /\ build = StoredBuild

(***************************************************************************)
(* The stream controller.  Start and stop are run by the event callback,  *)
(* one after the other inside one event; they are written as functions on *)
(* the record of the state they touch.                                     *)
(***************************************************************************)
CtlState ==
    [active |-> glIsApplnActive, epCfg |-> uvcVideoEpCfg, ch |-> chState,
     inflight |-> inflight, epOn |-> epEnabled, mult |-> cfgMult,
     held |-> dmaHeld, wake |-> wake, started |-> FALSE, stopped |-> FALSE]

StartFailures == {"none", "SetEpConfig", "ChannelCreate", "SetXfer"}

\* mutant of CyFxUVCApplnStart: the return of CyU3PDmaChannelSetXfer is not
\* tested (lines 270-274 missing)
CyFxUVCApplnStart_IgnoresSetXfer(s, speed, fail) ==
    LET cfg == [enable |-> TRUE,
                isoPkts |-> IF speed = "SS" THEN CY_FX_EP_ISO_VIDEO_SS_MULT ELSE 1,
                burstLen |-> IF speed = "SS" THEN CY_FX_EP_ISO_VIDEO_SS_BURST ELSE 1]
        s1 == [s EXCEPT !.epCfg = cfg]
        s2 == [s1 EXCEPT !.epOn = TRUE, !.mult = cfg.isoPkts % 4]
        s3 == [s2 EXCEPT !.ch = "created", !.inflight = 0,
                         !.held = IF s2.held = "none" THEN "none" ELSE "stale"]
        s4 == [s3 EXCEPT !.ch = IF fail = "SetXfer" THEN "created" ELSE "active"]
        s5 == [s4 EXCEPT !.active = TRUE, !.started = TRUE]
    IN  CASE fail = "SetEpConfig" -> s1
          [] fail = "ChannelCreate" -> s2
          [] OTHER -> s5

\* mutant of CyFxUVCApplnStart: the flag is set on entry (line 277 moved
\* before line 239)
CyFxUVCApplnStart_FlagFirst(s, speed, fail) ==
    LET cfg == [enable |-> TRUE,
                isoPkts |-> IF speed = "SS" THEN CY_FX_EP_ISO_VIDEO_SS_MULT ELSE 1,
                burstLen |-> IF speed = "SS" THEN CY_FX_EP_ISO_VIDEO_SS_BURST ELSE 1]
        s1 == [s EXCEPT !.epCfg = cfg, !.active = TRUE]
        s2 == [s1 EXCEPT !.epOn = TRUE, !.mult = cfg.isoPkts % 4]
        s3 == [s2 EXCEPT !.ch = "created", !.inflight = 0,
                         !.held = IF s2.held = "none" THEN "none" ELSE "stale"]
        s4 == [s3 EXCEPT !.ch = "active"]
        s5 == [s4 EXCEPT !.started = TRUE]
    IN  CASE fail = "SetEpConfig" -> s1
          [] fail = "ChannelCreate" -> s2
          [] fail = "SetXfer" -> s3
          [] OTHER -> s5

\* CyFxUVCApplnStart, lines 215-280; fail names the SDK call that fails
CyFxUVCApplnStart(s, speed, fail) ==
    LET cfg == [enable |-> TRUE,
                isoPkts |-> IF speed = "SS" THEN CY_FX_EP_ISO_VIDEO_SS_MULT ELSE 1,
                burstLen |-> IF speed = "SS" THEN CY_FX_EP_ISO_VIDEO_SS_BURST ELSE 1]
        s1 == [s EXCEPT !.epCfg = cfg]
        \* line 239: the endpoint takes the configuration, MULT included
        s2 == [s1 EXCEPT !.epOn = TRUE, !.mult = cfg.isoPkts % 4]
        \* line 259: a new channel; a buffer taken from an older one is stale
        s3 == [s2 EXCEPT !.ch = "created", !.inflight = 0,
                         !.held = IF s2.held = "none" THEN "none" ELSE "stale"]
        \* line 269
        s4 == [s3 EXCEPT !.ch = "active"]
        \* line 277
        s5 == [s4 EXCEPT !.active = TRUE, !.started = TRUE]
    IN  CASE fail = "SetEpConfig" -> s1
          [] fail = "ChannelCreate" -> s2
          [] fail = "SetXfer" -> s3
          [] OTHER -> s5

\* mutant of CyFxUVCApplnStop: the endpoint is not disabled (lines 298-299)
CyFxUVCApplnStop_LeavesEndpoint(s, blocked) ==
    [s EXCEPT !.active = FALSE,
              !.ch = "none",
              !.inflight = 0,
              !.held = IF s.held = "none" THEN "none" ELSE "stale",
              !.wake = blocked \/ s.wake,
              !.stopped = TRUE]

\* CyFxUVCApplnStop, lines 285-302; blocked: the producer waits in GetBuffer
CyFxUVCApplnStop(s, blocked) ==
    [s EXCEPT !.active = FALSE,
              !.ch = "none",
              !.inflight = 0,
              !.held = IF s.held = "none" THEN "none" ELSE "stale",
              !.wake = blocked \/ s.wake,
              !.epCfg = [s.epCfg EXCEPT !.enable = FALSE],
              !.epOn = FALSE,
              !.stopped = TRUE]

USBEvents == {"SETCONF", "SETINTF", "RESET", "DISCONNECT"}

\* the events with the part of their data the handler looks at; fail and
\* speed are the outcome of the start the event causes and the speed
\* of the link after a reset or a disconnect
EventInputs ==
    [evtype : {"SETCONF"}, interface : {0}, altSetting : {0},
     fail : {"none"}, speed : {"same"}] \cup
    [evtype : {"SETINTF"}, interface : {0, CY_FX_UVC_INTERFACE_VS},
     altSetting : {0}, fail : {"none"}, speed : {"same"}] \cup
    [evtype : {"SETINTF"}, interface : {0}, altSetting : {1},
     fail : {"none"}, speed : {"same"}] \cup
    [evtype : {"SETINTF"}, interface : {CY_FX_UVC_INTERFACE_VS},
     altSetting : {1}, fail : StartFailures, speed : {"same"}] \cup
    [evtype : {"RESET", "DISCONNECT"}, interface : {0}, altSetting : {0},
     fail : {"none"}, speed : {"HS", "SS"}]

\* mutant of EventEffect: SET_INTERFACE starts the stream without stopping
\* the one that is active (lines 328-331 missing)
EventEffect_NoStopBeforeStart(s, ev, blocked) ==
    IF /\ ev.evtype = "SETINTF"
       /\ ev.interface = CY_FX_UVC_INTERFACE_VS
       /\ ev.altSetting # 0
    THEN CyFxUVCApplnStart(s, usbSpeed, ev.fail)
    ELSE IF s.active THEN CyFxUVCApplnStop(s, blocked) ELSE s

\* mutant of EventEffect: a reset or a disconnect leaves the stream as it
\* is (lines 343-346 missing)
EventEffect_ResetIgnored(s, ev, blocked) ==
    LET s1 == IF s.active /\ ev.evtype \notin {"RESET", "DISCONNECT"}
              THEN CyFxUVCApplnStop(s, blocked) ELSE s
    IN  IF /\ ev.evtype = "SETINTF"
           /\ ev.interface = CY_FX_UVC_INTERFACE_VS
           /\ ev.altSetting # 0
        THEN CyFxUVCApplnStart(s1, usbSpeed, ev.fail)
        ELSE s1

\* CyFxUVCApplnUSBEventCB, lines 305-353, on the controller state
\* (glIsDevConfigured is read by the setup callback only and is left out)
EventEffect(s, ev, blocked) ==
    LET s1 == IF s.active THEN CyFxUVCApplnStop(s, blocked) ELSE s
    IN  IF /\ ev.evtype = "SETINTF"
           /\ ev.interface = CY_FX_UVC_INTERFACE_VS
           /\ ev.altSetting # 0
        THEN CyFxUVCApplnStart(s1, usbSpeed, ev.fail)
        ELSE s1

CyFxUVCApplnUSBEventCB ==
    \E ev \in EventInputs :
        LET t == EventEffect(CtlState, ev, pc = "blocked")
        IN  /\ glIsApplnActive' = t.active
            /\ uvcVideoEpCfg' = t.epCfg
            /\ chState' = t.ch
            /\ inflight' = t.inflight
            /\ epEnabled' = t.epOn
            /\ cfgMult' = t.mult
            /\ dmaHeld' = t.held
            /\ wake' = t.wake
            \* the link comes back at the speed of the next connection
            /\ usbSpeed' = IF ev.speed = "same" THEN usbSpeed ELSE ev.speed
            /\ framesDone' = IF t.started THEN 0 ELSE framesDone
            /\ firstPending' = IF t.started THEN TRUE ELSE firstPending
            /\ UNCHANGED <<CurrentMultVal, glUVCHeader1, epNak>>
            /\ UNCHANGED <<pc, status, frameStart, frameIndex, frameOffset,
                           commitLength, isEofChunk, bufHdr1, val2, multVal>>
            /\ UNCHANGED <<frSum, frCnt, frEofs, failure, cmpSnap>>
            /\ UNCHANGED build

\* mutant of CyFxUVCAppDmaCallback: the speed test of line 205 is missing
CyFxUVCAppDmaCallback_AnySpeed ==
    /\ chState = "active"
    /\ inflight > 0
    /\ inflight' = inflight - 1
    /\ \E epm \in EpmValues :
         /\ CurrentMultVal' = RawMultVal(epm)
         /\ cfgMult' = MultField(RawMultVal(epm))
    /\ UNCHANGED <<glIsApplnActive, glUVCHeader1, uvcVideoEpCfg>>
    /\ UNCHANGED <<chState, epEnabled, epNak, usbSpeed>>
    /\ UNCHANGED <<pc, status, frameStart, frameIndex, frameOffset, commitLength,
                   isEofChunk, bufHdr1, dmaHeld, wake, val2, multVal>>
    /\ UNCHANGED <<frSum, frCnt, frEofs, framesDone, firstPending, failure, cmpSnap>>
    /\ UNCHANGED build

(***************************************************************************)
(* CyFxUVCAppDmaCallback, lines 198-211: the consumer socket has drained  *)
(* one committed buffer (CY_U3P_DMA_CB_CONS_EVENT).                        *)
(***************************************************************************)
CyFxUVCAppDmaCallback ==
    /\ chState = "active"
    /\ inflight > 0
    /\ inflight' = inflight - 1
    /\ IF usbSpeed = "HS"
       THEN \E epm \in EpmValues :
              /\ CurrentMultVal' = RawMultVal(epm)
              /\ cfgMult' = MultField(RawMultVal(epm))
       ELSE UNCHANGED <<CurrentMultVal, cfgMult>>
    /\ UNCHANGED <<glIsApplnActive, glUVCHeader1, uvcVideoEpCfg>>
    /\ UNCHANGED <<chState, epEnabled, epNak, usbSpeed>>
    /\ UNCHANGED prodVars
    /\ UNCHANGED histVars
    /\ UNCHANGED build


(***************************************************************************)
(* The producer UVCAppThread_Entry, lines 650-790.                         *)
(*                                                                         *)
(* failure records, for the pass in progress, why the acquire or commit   *)
(* failed: "aborted" (stop destroyed the channel under a blocked          *)
(* GetBuffer), "active" (the call failed while glIsApplnActive was set),   *)
(* "idle" (it failed while the flag was clear).                            *)
(***************************************************************************)
smLocals == <<val2, multVal>>
cursor == <<frameStart, frameIndex, frameOffset>>
chunk == <<commitLength, isEofChunk, bufHdr1>>
frameHist == <<frSum, frCnt, frEofs, framesDone>>

FailureOf(ok, aborted) ==
    CASE ok -> failure
      [] aborted -> "aborted"
      [] glIsApplnActive -> "active"
      [] OTHER -> "idle"

\* lines 652-657
P_Reset ==
    /\ pc = "reset"
    /\ frameStart' = 0
    /\ frameIndex' = 0
    /\ frameOffset' = 0
    /\ glUVCHeader1' = CY_FX_UVC_HEADER_DEFAULT_BFH
    /\ pc' = "while"
    /\ frSum' = 0
    /\ frCnt' = 0
    /\ frEofs' = 0
    /\ UNCHANGED <<glIsApplnActive, CurrentMultVal, uvcVideoEpCfg>>
    /\ UNCHANGED hwVars
    /\ UNCHANGED <<status, dmaHeld, wake, chunk, smLocals>>
    /\ UNCHANGED <<framesDone, firstPending, failure, cmpSnap>>
    /\ UNCHANGED build

\* line 660
P_While ==
    /\ pc = "while"
    /\ pc' = IF glIsApplnActive THEN "get" ELSE "exiterr"
    /\ UNCHANGED <<progVars, hwVars, histVars>>
    /\ UNCHANGED <<status, cursor, chunk, dmaHeld, wake, smLocals>>
    /\ UNCHANGED build

\* CyU3PDmaChannelGetBuffer returned: lines 663-668
GetReturns(ok, aborted) ==
    /\ status' = IF ok THEN "SUCCESS" ELSE "ERROR"
    /\ pc' = IF ok THEN "fill" ELSE "exiterr"
    /\ dmaHeld' = IF ok THEN "cur" ELSE dmaHeld
    /\ wake' = FALSE
    /\ failure' = FailureOf(ok, aborted)
    /\ UNCHANGED <<progVars, hwVars>>
    /\ UNCHANGED <<cursor, chunk, smLocals>>
    /\ UNCHANGED <<frameHist, firstPending, cmpSnap>>
    /\ UNCHANGED build

\* line 663: the call finds a free buffer, or no usable channel
P_GetBuffer ==
    /\ pc = "get"
    /\ IF chState = "active"
       THEN inflight < CY_FX_UVC_STREAM_BUF_COUNT /\ GetReturns(TRUE, FALSE)
       ELSE GetReturns(FALSE, FALSE)

\* line 663: the call fails for a reason of the transport
P_GetBufferFails ==
    /\ pc = "get"
    /\ chState = "active"
    /\ GetReturns(FALSE, FALSE)

\* line 663: every buffer is in flight; CYU3P_WAIT_FOREVER
P_GetBufferBlocks ==
    /\ pc = "get"
    /\ chState = "active"
    /\ inflight >= CY_FX_UVC_STREAM_BUF_COUNT
    /\ pc' = "blocked"
    /\ UNCHANGED <<progVars, hwVars, histVars>>
    /\ UNCHANGED <<status, cursor, chunk, dmaHeld, wake, smLocals>>
    /\ UNCHANGED build

\* the blocked call resumes: a buffer was drained, or the channel was destroyed
P_GetBufferWakes ==
    /\ pc = "blocked"
    /\ IF wake
       THEN GetReturns(FALSE, TRUE)
       ELSE /\ chState = "active"
            /\ inflight < CY_FX_UVC_STREAM_BUF_COUNT
            /\ GetReturns(TRUE, FALSE)

\* mutant of P_Fill: the speed is not tested (lines 686 and 736 missing)
P_Fill_AnySpeed ==
    /\ pc = "fill"
    /\ LET mid == IsMidChunk(frameOffset, frameIndex)
           frameInd == IF mid THEN CY_FX_UVC_HEADER_FRAME ELSE CY_FX_UVC_HEADER_EOF
       IN  /\ isEofChunk' = ~mid
           /\ commitLength' = CommitLengthOf(frameOffset, frameIndex)
           /\ bufHdr1' = BufferAfterStamp(glUVCHeader1, frameInd)
           /\ glUVCHeader1' = HeaderAfterStamp(glUVCHeader1, frameInd)
    /\ pc' = "cmp"
    /\ UNCHANGED <<glIsApplnActive, CurrentMultVal, uvcVideoEpCfg>>
    /\ UNCHANGED <<hwVars, histVars>>
    /\ UNCHANGED <<status, cursor, dmaHeld, wake, smLocals>>
    /\ UNCHANGED build

\* lines 671-686 and 720-736: fill the buffer, stamp it, read the speed
P_Fill ==
    /\ pc = "fill"
    /\ LET mid == IsMidChunk(frameOffset, frameIndex)
           frameInd == IF mid THEN CY_FX_UVC_HEADER_FRAME ELSE CY_FX_UVC_HEADER_EOF
       IN  /\ isEofChunk' = ~mid
           /\ commitLength' = CommitLengthOf(frameOffset, frameIndex)
           /\ bufHdr1' = BufferAfterStamp(glUVCHeader1, frameInd)
           /\ glUVCHeader1' = HeaderAfterStamp(glUVCHeader1, frameInd)
    /\ pc' = IF usbSpeed = "HS" THEN "cmp" ELSE "commit"
    /\ UNCHANGED <<glIsApplnActive, CurrentMultVal, uvcVideoEpCfg>>
    /\ UNCHANGED <<hwVars, histVars>>
    /\ UNCHANGED <<status, cursor, dmaHeld, wake, smLocals>>
    /\ UNCHANGED build

\* mutant of P_CompareMult: the comparison is inverted
P_CompareMult_Inverted ==
    /\ pc = "cmp"
    /\ IF CurrentMultVal = ImpliedMult(commitLength, isEofChunk)
       THEN pc' = "nak_on" /\ cmpSnap' = NoSnap
       ELSE pc' = "commit" /\ cmpSnap' = [cur |-> CurrentMultVal, cfg |-> cfgMult]
    /\ UNCHANGED <<progVars, hwVars>>
    /\ UNCHANGED <<status, cursor, chunk, dmaHeld, wake, smLocals>>
    /\ UNCHANGED <<frameHist, firstPending, failure>>
    /\ UNCHANGED build

\* lines 690 and 740
P_CompareMult ==
    /\ pc = "cmp"
    /\ IF CurrentMultVal # ImpliedMult(commitLength, isEofChunk)
       THEN pc' = "nak_on" /\ cmpSnap' = NoSnap
       ELSE pc' = "commit" /\ cmpSnap' = [cur |-> CurrentMultVal, cfg |-> cfgMult]
    /\ UNCHANGED <<progVars, hwVars>>
    /\ UNCHANGED <<status, cursor, chunk, dmaHeld, wake, smLocals>>
    /\ UNCHANGED <<frameHist, firstPending, failure>>
    /\ UNCHANGED build

\* mutant of P_NakOn: the multiplier the chunk asks for is programmed
\* before the commit
P_NakOn_ProgramsFirst ==
    /\ pc = "nak_on"
    /\ epNak' = TRUE
    /\ CurrentMultVal' = ImpliedMult(commitLength, isEofChunk)
    /\ cfgMult' = MultField(ImpliedMult(commitLength, isEofChunk))
    /\ pc' = "nak_commit"
    /\ UNCHANGED <<glIsApplnActive, glUVCHeader1, uvcVideoEpCfg>>
    /\ UNCHANGED <<chState, inflight, epEnabled, usbSpeed>>
    /\ UNCHANGED histVars
    /\ UNCHANGED <<status, cursor, chunk, dmaHeld, wake, smLocals>>
    /\ UNCHANGED build

\* mutant of P_NakOn: the endpoint is not set to NAK (line 692 missing)
P_NakOn_NoNak ==
    /\ pc = "nak_on"
    /\ pc' = "nak_commit"
    /\ UNCHANGED <<progVars, histVars, hwVars>>
    /\ UNCHANGED <<status, cursor, chunk, dmaHeld, wake, smLocals>>
    /\ UNCHANGED build

\* lines 692-693 and 742-743
P_NakOn ==
    /\ pc = "nak_on"
    /\ epNak' = TRUE
    /\ pc' = "nak_commit"
    /\ UNCHANGED <<progVars, histVars>>
    /\ UNCHANGED <<chState, inflight, epEnabled, cfgMult, usbSpeed>>
    /\ UNCHANGED <<status, cursor, chunk, dmaHeld, wake, smLocals>>
    /\ UNCHANGED build

\* CyU3PDmaChannelCommitBuffer: it fails when the channel is gone, it may
\* fail for a reason of the transport, and what it does with a buffer that
\* was taken from a channel destroyed since is the SDK's choice
CommitBuffer(ok, next) ==
    /\ ok => (chState = "active" /\ inflight < CY_FX_UVC_STREAM_BUF_COUNT)
    /\ status' = IF ok THEN "SUCCESS" ELSE "ERROR"
    /\ inflight' = IF ok THEN inflight + 1 ELSE inflight
    /\ dmaHeld' = IF ok THEN "none" ELSE dmaHeld
    /\ pc' = next
    /\ frSum' = IF ok THEN frSum + commitLength ELSE frSum
    /\ frCnt' = IF ok THEN frCnt + 1 ELSE frCnt
    /\ frEofs' = IF ok /\ BitSet(bufHdr1, CY_FX_UVC_HEADER_EOF)
                 THEN frEofs + 1 ELSE frEofs
    /\ firstPending' = (firstPending /\ ~ok)
    /\ failure' = FailureOf(ok, FALSE)
    /\ UNCHANGED progVars
    /\ UNCHANGED <<chState, epEnabled, cfgMult, epNak, usbSpeed>>
    /\ UNCHANGED <<cursor, chunk, wake, smLocals>>
    /\ UNCHANGED <<framesDone, cmpSnap>>
    /\ UNCHANGED build

\* lines 694 and 744: the commit inside the NAK window
P_NakCommit ==
    /\ pc = "nak_commit"
    /\ \E ok \in BOOLEAN : CommitBuffer(ok, "sm_read")

\* lines 702, 708, 752 and 758: the direct commit
P_Commit ==
    /\ pc = "commit"
    /\ \E ok \in BOOLEAN : CommitBuffer(ok, "post")

\* lines 696 and 746, CyFxUvcAppSetMultByEpm lines 128-137: the registers
\* are read; of DEV_EPI_CS only the MULT field is modelled, and the function
\* overwrites it
P_SetMultRead ==
    /\ pc = "sm_read"
    /\ \E epm \in EpmValues :
         /\ val2' = epm
         /\ multVal' = RawMultVal(epm)
    /\ pc' = "sm_wr_cur"
    /\ UNCHANGED <<progVars, hwVars, histVars>>
    /\ UNCHANGED <<status, cursor, chunk, dmaHeld, wake>>
    /\ UNCHANGED build

\* CyFxUvcAppSetMultByEpm line 139
P_SetMultWriteCur ==
    /\ pc = "sm_wr_cur"
    /\ CurrentMultVal' = multVal
    /\ pc' = "sm_wr_cfg"
    /\ UNCHANGED <<glIsApplnActive, glUVCHeader1, uvcVideoEpCfg>>
    /\ UNCHANGED <<hwVars, histVars>>
    /\ UNCHANGED <<status, cursor, chunk, dmaHeld, wake, smLocals>>
    /\ UNCHANGED build

\* CyFxUvcAppSetMultByEpm lines 142-146
P_SetMultWriteCfg ==
    /\ pc = "sm_wr_cfg"
    /\ cfgMult' = MultField(multVal)
    /\ pc' = "nak_off"
    /\ UNCHANGED <<progVars, histVars>>
    /\ UNCHANGED <<chState, inflight, epEnabled, epNak, usbSpeed>>
    /\ UNCHANGED <<status, cursor, chunk, dmaHeld, wake, smLocals>>
    /\ UNCHANGED build

\* mutant of P_NakOff: the NAK state is cleared only when the commit
\* succeeded
P_NakOff_OnlyOnSuccess ==
    /\ pc = "nak_off"
    /\ epNak' = IF status = "SUCCESS" THEN FALSE ELSE epNak
    /\ pc' = "post"
    /\ val2' = NoEpm
    /\ multVal' = 0
    /\ UNCHANGED <<progVars, histVars>>
    /\ UNCHANGED <<chState, inflight, epEnabled, cfgMult, usbSpeed>>
    /\ UNCHANGED <<status, cursor, chunk, dmaHeld, wake>>
    /\ UNCHANGED build

\* lines 697 and 747; the locals of the recompute are dead from here on
P_NakOff ==
    /\ pc = "nak_off"
    /\ epNak' = FALSE
    /\ pc' = "post"
    /\ val2' = NoEpm
    /\ multVal' = 0
    /\ UNCHANGED <<progVars, histVars>>
    /\ UNCHANGED <<chState, inflight, epEnabled, cfgMult, usbSpeed>>
    /\ UNCHANGED <<status, cursor, chunk, dmaHeld, wake>>
    /\ UNCHANGED build

\* mutant of P_Post: behind the last frame the index restarts but the base
\* offset of line 775 is not reset
P_Post_NoWrap ==
    /\ pc = "post"
    /\ IF status # "SUCCESS"
       THEN /\ pc' = "exiterr"
            /\ UNCHANGED <<cursor, frameHist>>
       ELSE /\ pc' = "while"
            /\ IF ~isEofChunk
               THEN /\ frameOffset' = frameOffset + PayloadCap
                    /\ UNCHANGED <<frameStart, frameIndex, frameHist>>
               ELSE /\ frameOffset' = 0
                    /\ frameIndex' = (frameIndex + 1) % CY_FX_UVC_MAX_VID_FRAMES
                    /\ frameStart' = frameStart + glVidFrameLen[frameIndex + 1]
                    /\ frSum' = 0
                    /\ frCnt' = 0
                    /\ frEofs' = 0
                    /\ framesDone' = 1 - framesDone
    /\ commitLength' = 0
    /\ isEofChunk' = FALSE
    /\ bufHdr1' = 0
    /\ cmpSnap' = NoSnap
    /\ UNCHANGED <<progVars, hwVars>>
    /\ UNCHANGED <<status, dmaHeld, wake, smLocals>>
    /\ UNCHANGED <<firstPending, failure>>
    /\ UNCHANGED build

\* mutant of P_Post: behind the last chunk of a frame the cursor is left
\* where it is (lines 767-776 missing)
P_Post_NoNextFrame ==
    /\ pc = "post"
    /\ IF status # "SUCCESS"
       THEN /\ pc' = "exiterr"
            /\ UNCHANGED <<cursor, frameHist>>
       ELSE /\ pc' = "while"
            /\ IF ~isEofChunk
               THEN /\ frameOffset' = frameOffset + PayloadCap
                    /\ UNCHANGED <<frameStart, frameIndex, frameHist>>
               ELSE /\ UNCHANGED cursor
                    /\ frSum' = 0
                    /\ frCnt' = 0
                    /\ frEofs' = 0
                    /\ framesDone' = 1 - framesDone
    /\ commitLength' = 0
    /\ isEofChunk' = FALSE
    /\ bufHdr1' = 0
    /\ cmpSnap' = NoSnap
    /\ UNCHANGED <<progVars, hwVars>>
    /\ UNCHANGED <<status, dmaHeld, wake, smLocals>>
    /\ UNCHANGED <<firstPending, failure>>
    /\ UNCHANGED build

\* mutant of P_Post: behind the last chunk of a frame the offset in the
\* frame is not reset (line 767 missing)
P_Post_KeepsOffset ==
    /\ pc = "post"
    /\ IF status # "SUCCESS"
       THEN /\ pc' = "exiterr"
            /\ UNCHANGED <<cursor, frameHist>>
       ELSE /\ pc' = "while"
            /\ IF ~isEofChunk
               THEN /\ frameOffset' = frameOffset + PayloadCap
                    /\ UNCHANGED <<frameStart, frameIndex, frameHist>>
               ELSE /\ frameOffset' = frameOffset
                    /\ IF frameIndex + 1 >= CY_FX_UVC_MAX_VID_FRAMES
                       THEN frameIndex' = 0 /\ frameStart' = 0
                       ELSE /\ frameIndex' = frameIndex + 1
                            /\ frameStart' = frameStart + glVidFrameLen[frameIndex + 1]
                    /\ frSum' = 0
                    /\ frCnt' = 0
                    /\ frEofs' = 0
                    /\ framesDone' = 1 - framesDone
    /\ commitLength' = 0
    /\ isEofChunk' = FALSE
    /\ bufHdr1' = 0
    /\ cmpSnap' = NoSnap
    /\ UNCHANGED <<progVars, hwVars>>
    /\ UNCHANGED <<status, dmaHeld, wake, smLocals>>
    /\ UNCHANGED <<firstPending, failure>>
    /\ UNCHANGED build

\* lines 711-717 and 761-776; the cursor is uint32_t and stays below the
\* size of the frame store, far from the wrap.  commitLength and the buffer
\* are dead until the next chunk is filled.
P_Post ==
    /\ pc = "post"
    /\ IF status # "SUCCESS"
       THEN /\ pc' = "exiterr"
            /\ UNCHANGED <<cursor, frameHist>>
       ELSE /\ pc' = "while"
            /\ IF ~isEofChunk
               THEN /\ frameOffset' = frameOffset + PayloadCap
                    /\ UNCHANGED <<frameStart, frameIndex, frameHist>>
               ELSE /\ frameOffset' = 0
                    /\ IF frameIndex + 1 >= CY_FX_UVC_MAX_VID_FRAMES
                       THEN frameIndex' = 0 /\ frameStart' = 0
                       ELSE /\ frameIndex' = frameIndex + 1
                            /\ frameStart' = frameStart + glVidFrameLen[frameIndex + 1]
                    /\ frSum' = 0
                    /\ frCnt' = 0
                    /\ frEofs' = 0
                    /\ framesDone' = 1 - framesDone
    /\ commitLength' = 0
    /\ isEofChunk' = FALSE
    /\ bufHdr1' = 0
    /\ cmpSnap' = NoSnap
    /\ UNCHANGED <<progVars, hwVars>>
    /\ UNCHANGED <<status, dmaHeld, wake, smLocals>>
    /\ UNCHANGED <<firstPending, failure>>
    /\ UNCHANGED build

\* mutant of CyFxAppErrorHandler: the handler returns to the thread
CyFxAppErrorHandler_Returns ==
    /\ pc = "exiterr"
    /\ status # "SUCCESS" /\ glIsApplnActive
    /\ pc' = "sleep"
    /\ failure' = "none"
    /\ UNCHANGED <<progVars, hwVars>>
    /\ UNCHANGED <<status, cursor, chunk, dmaHeld, wake, smLocals>>
    /\ UNCHANGED <<frameHist, firstPending, cmpSnap>>
    /\ UNCHANGED build

\* lines 781-785 and CyFxAppErrorHandler, lines 106-121: no way out
CyFxAppErrorHandler ==
    /\ pc = "exiterr"
    /\ status # "SUCCESS" /\ glIsApplnActive
    /\ pc' = "halt"
    /\ failure' = "none"
    /\ UNCHANGED <<progVars, hwVars>>
    /\ UNCHANGED <<status, cursor, chunk, dmaHeld, wake, smLocals>>
    /\ UNCHANGED <<frameHist, firstPending, cmpSnap>>
    /\ UNCHANGED build

\* lines 781 and 788: no streamer error, the thread sleeps
P_Idle ==
    /\ pc = "exiterr"
    /\ ~(status # "SUCCESS" /\ glIsApplnActive)
    /\ pc' = "sleep"
    /\ failure' = "none"
    /\ UNCHANGED <<progVars, hwVars>>
    /\ UNCHANGED <<status, cursor, chunk, dmaHeld, wake, smLocals>>
    /\ UNCHANGED <<frameHist, firstPending, cmpSnap>>
    /\ UNCHANGED build

\* line 788 to line 650
P_Sleep ==
    /\ pc = "sleep"
    /\ pc' = "reset"
    /\ UNCHANGED <<progVars, hwVars, histVars>>
    /\ UNCHANGED <<status, cursor, chunk, dmaHeld, wake, smLocals>>
    /\ UNCHANGED build

Producer ==
    \/ P_Reset
    \/ P_While
    \/ P_GetBuffer
    \/ P_GetBufferFails
    \/ P_GetBufferBlocks
    \/ P_GetBufferWakes
    \/ P_Fill
    \/ P_CompareMult
    \/ P_NakOn
    \/ P_NakCommit
    \/ P_Commit
    \/ P_SetMultRead
    \/ P_SetMultWriteCur
    \/ P_SetMultWriteCfg
    \/ P_NakOff
    \/ P_Post
    \/ CyFxAppErrorHandler
    \/ P_Idle
    \/ P_Sleep

Next ==
    \/ Producer
    \/ CyFxUVCApplnUSBEventCB
    \/ CyFxUVCAppDmaCallback

Spec == Init /\ [][Next]_vars


(***************************************************************************)
(* Which context took a step.  Every step of the producer moves pc.  A run *)
(* of the DMA callback takes one buffer out of flight and leaves the       *)
(* channel in place; the event callback never does that: its stop empties  *)
(* the channel and destroys it, and a start after it sets firstPending,    *)
(* which is clear whenever a buffer is in flight.                          *)
(***************************************************************************)
ProducerStep == pc' # pc

CallbackStep ==
    /\ pc' = pc
    /\ chState = "active" /\ chState' = "active"
    /\ inflight' = inflight - 1
    /\ firstPending' = firstPending

\* the producer is past the commit of the chunk it filled
AfterCommit == pc \in {"sm_read", "sm_wr_cur", "sm_wr_cfg", "nak_off", "post"}

DefaultHeader(n) ==
    IF n % 2 = 0 THEN CY_FX_UVC_HEADER_DEFAULT_BFH
    ELSE XorBit(CY_FX_UVC_HEADER_DEFAULT_BFH, CY_FX_UVC_HEADER_FRAME_ID)

CeilDiv(a, b) == (a + (b - 1)) \div b

Clamp(x, lo, hi) == IF x < lo THEN lo ELSE IF x > hi THEN hi ELSE x

(***************************************************************************)
(* C1: for every frame the producer streams, the commit lengths of the     *)
(* frame's chunks sum to header length x chunk count + frame length, and   *)
(* the last chunk of the frame is the only one whose header carries EOF.   *)
(* Stated on the chunk just committed: before the last chunk the sum is    *)
(* header length x chunk count + the bytes of the frame sent so far and no *)
(* chunk carried EOF.                                                      *)
(***************************************************************************)
C1_FrameCommitSum ==
    (AfterCommit /\ status = "SUCCESS") =>
        IF isEofChunk
        THEN /\ frSum = (CY_FX_UVC_MAX_HEADER * frCnt) + glVidFrameLen[frameIndex + 1]
             /\ frEofs = 1
             /\ BitSet(bufHdr1, CY_FX_UVC_HEADER_EOF)
        ELSE /\ frSum = (CY_FX_UVC_MAX_HEADER * frCnt) + frameOffset + PayloadCap
             /\ frameOffset + PayloadCap < glVidFrameLen[frameIndex + 1]
             /\ frEofs = 0
             /\ ~BitSet(bufHdr1, CY_FX_UVC_HEADER_EOF)

\* the three chunks of frame 0 are committed, the last one with EOF
C1_Witness ==
    /\ pc = "post" /\ status = "SUCCESS"
    /\ isEofChunk /\ frameIndex = 0 /\ frCnt = 3
    /\ frSum = 8220 + (3 * CY_FX_UVC_MAX_HEADER)

(***************************************************************************)
(* C2: when stop ran while the producer was blocked in the buffer          *)
(* acquisition, the producer leaves the loop and reaches the idle sleep    *)
(* without entering the fatal error handler, whatever events follow the    *)
(* stop.                                                                   *)
(***************************************************************************)
C2_StopWhileBlockedNotFatal ==
    [][(pc = "exiterr" /\ failure = "aborted") => pc' # "halt"]_vars

(***************************************************************************)
(* C3: after N frames completed since the stream became active, the frame  *)
(* id bit of the header template is its default value XOR (N mod 2).       *)
(* Stated where the producer stands between two chunks.                    *)
(***************************************************************************)
C3_FrameIdParity ==
    (glIsApplnActive /\ pc \in {"get", "blocked"}) =>
        glUVCHeader1 = DefaultHeader(framesDone)

(***************************************************************************)
(* C4 as claimed: on the Hi-Speed path, when the multiplier the chunk asks *)
(* for differs from the programmed one, the programmed multiplier has the  *)
(* value the chunk asks for when the commit is issued.                     *)
(***************************************************************************)
C4_ProgrammedBeforeCommit ==
    [][(pc = "nak_commit" /\ ProducerStep) =>
          CurrentMultVal = ImpliedMult(commitLength, isEofChunk)]_vars

(***************************************************************************)
(* C4 as amended: on the Hi-Speed path, when the multiplier the chunk asks *)
(* for differs from the programmed one, the producer sets the NAK, issues  *)
(* the commit without having written the programmed multiplier or the      *)
(* MULT field, and only then runs the recompute, which sets the programmed *)
(* multiplier to the value read from the EPM (0 when the EPM is not ready, *)
(* else bytes / 1024 + 1), whatever the chunk asked for.                   *)
(***************************************************************************)
C4_CommitThenRecompute ==
    [][/\ (pc = "cmp" /\ pc' = "nak_on") =>
             CurrentMultVal # ImpliedMult(commitLength, isEofChunk)
       /\ (pc = "nak_on" /\ ProducerStep) =>
             (pc' = "nak_commit" /\ UNCHANGED <<CurrentMultVal, cfgMult>>)
       /\ (pc = "nak_commit" /\ ProducerStep) =>
             (pc' = "sm_read" /\ UNCHANGED <<CurrentMultVal, cfgMult>>)
       /\ (pc = "sm_wr_cur" /\ ProducerStep) =>
             CurrentMultVal' = (IF val2.ready THEN (val2.dsize \div 1024) + 1 ELSE 0)
      ]_vars

\* the chunk was committed and the recompute then programmed another value
\* than the one the chunk asked for
C4_Witness ==
    /\ pc = "sm_wr_cfg" /\ status = "SUCCESS"
    /\ CurrentMultVal = multVal
    /\ multVal # ImpliedMult(commitLength, isEofChunk)

(***************************************************************************)
(* C5 as claimed: when the multiplier the chunk asks for equals the        *)
(* programmed one, neither the programmed multiplier nor the MULT field    *)
(* changes between the comparison and the commit.                          *)
(***************************************************************************)
C5_NoChangeUntilCommit ==
    (pc = "commit" /\ cmpSnap # NoSnap) =>
        (CurrentMultVal = cmpSnap.cur /\ cfgMult = cmpSnap.cfg)

(***************************************************************************)
(* C5 as amended: when the multiplier the chunk asks for equals the        *)
(* programmed one, the chunk is committed directly and the producer writes *)
(* neither the programmed multiplier, nor the MULT field, nor the NAK      *)
(* state from the comparison to the commit; in between the programmed      *)
(* multiplier changes only by a run of the completion callback at          *)
(* Hi-Speed.                                                               *)
(***************************************************************************)
C5_DirectCommitWritesNothing ==
    [][/\ (pc = "cmp" /\ pc' = "commit") =>
             /\ CurrentMultVal = ImpliedMult(commitLength, isEofChunk)
             /\ UNCHANGED <<CurrentMultVal, cfgMult, epNak>>
       /\ (pc = "commit" /\ ProducerStep) =>
             (pc' = "post" /\ UNCHANGED <<CurrentMultVal, cfgMult, epNak>>)
       /\ (pc = "commit" /\ ~ProducerStep /\ CurrentMultVal' # CurrentMultVal) =>
             (CallbackStep /\ usbSpeed = "HS")
      ]_vars

\* a chunk was committed directly although the callback had changed the
\* programmed multiplier after the comparison
C5_Witness ==
    /\ pc = "post" /\ status = "SUCCESS"
    /\ cmpSnap # NoSnap
    /\ CurrentMultVal # cmpSnap.cur

(***************************************************************************)
(* C6: every multiplier value the recompute writes into the MULT field is  *)
(* 1, 2 or 3, for every value of the occupancy register; it is 1 when the  *)
(* EPM is not ready or holds 0 bytes.                                      *)
(***************************************************************************)
C6_WrittenMultInRange ==
    [][/\ (pc = "sm_wr_cfg" /\ ProducerStep) =>
             /\ cfgMult' \in {1, 2, 3}
             /\ (~val2.ready \/ val2.dsize = 0) => cfgMult' = 1
       /\ (CallbackStep /\ usbSpeed = "HS") =>
             /\ cfgMult' \in {1, 2, 3}
             /\ CurrentMultVal' = 0 => cfgMult' = 1
      ]_vars

\* the recompute found the EPM not ready, cached 0 and wrote 1
C6_Witness ==
    /\ pc = "nak_off"
    /\ ~val2.ready
    /\ CurrentMultVal = 0
    /\ cfgMult = 1

(***************************************************************************)
(* C7 as claimed: for every bytes_ready read while the EPM is ready, the   *)
(* multiplier the recompute programs is clamp(ceil(bytes_ready / 1024),    *)
(* 1, 3).                                                                  *)
(***************************************************************************)
C7_MultIsCeil ==
    [][(pc = "sm_wr_cfg" /\ ProducerStep /\ val2.ready) =>
          cfgMult' = Clamp(CeilDiv(val2.dsize, 1024), 1, 3)]_vars

(***************************************************************************)
(* C7 as amended: for every bytes_ready read while the EPM is ready, the   *)
(* multiplier the recompute programs is clamp(floor(bytes_ready / 1024)    *)
(* + 1, 1, 3): an exact multiple of 1024 gives one more than the rounded   *)
(* up quotient (1024 gives 2, 2048 gives 3), and 2500 bytes give 3.        *)
(***************************************************************************)
C7_MultIsFloorPlusOne ==
    [][(pc = "sm_wr_cfg" /\ ProducerStep /\ val2.ready) =>
          /\ cfgMult' = Clamp((val2.dsize \div 1024) + 1, 1, 3)
          /\ val2.dsize = 1024 => cfgMult' = 2
          /\ val2.dsize = 2048 => cfgMult' = 3
          /\ val2.dsize = 2500 => cfgMult' = 3
      ]_vars

\* the recompute read exactly 1024 bytes and wrote 2
C7_Witness ==
    /\ pc = "nak_off"
    /\ val2.ready /\ val2.dsize = 1024
    /\ CurrentMultVal = 2
    /\ cfgMult = 2

(***************************************************************************)
(* C8 as claimed: the completion callback writes neither the MULT field of *)
(* the configuration register nor the programmed multiplier; the producer  *)
(* writes them only inside its quiesce sequence.                           *)
(***************************************************************************)
C8_CallbackWritesNothing ==
    [][/\ CallbackStep => UNCHANGED <<CurrentMultVal, cfgMult>>
       /\ (ProducerStep /\ CurrentMultVal' # CurrentMultVal) => pc = "sm_wr_cur"
       /\ (ProducerStep /\ cfgMult' # cfgMult) => pc = "sm_wr_cfg"
      ]_vars

(***************************************************************************)
(* C8 as amended: at Hi-Speed the completion callback runs the recompute   *)
(* itself and writes both the programmed multiplier and the MULT field of  *)
(* the configuration register, outside any quiesce sequence; at any other  *)
(* speed it writes neither.  The producer writes them only in the          *)
(* recompute of its own quiesce sequence.                                  *)
(***************************************************************************)
C8_CallbackRecomputesAtHighSpeed ==
    [][/\ (CallbackStep /\ usbSpeed = "HS") =>
             \E epm \in EpmValues :
                 /\ CurrentMultVal' = (IF epm.ready THEN (epm.dsize \div 1024) + 1 ELSE 0)
                 /\ cfgMult' = Clamp(CurrentMultVal', 1, 3)
       /\ (CallbackStep /\ usbSpeed # "HS") => UNCHANGED <<CurrentMultVal, cfgMult>>
       /\ (ProducerStep /\ CurrentMultVal' # CurrentMultVal) => pc = "sm_wr_cur"
       /\ (ProducerStep /\ cfgMult' # cfgMult) => pc = "sm_wr_cfg"
      ]_vars

\* the callback rewrote both values while the producer stood before a
\* direct commit, the endpoint not in the NAK state
C8_Witness ==
    /\ pc = "commit" /\ usbSpeed = "HS" /\ ~epNak
    /\ cmpSnap # NoSnap
    /\ CurrentMultVal # cmpSnap.cur
    /\ cfgMult # cmpSnap.cfg

(***************************************************************************)
(* C9: after every Idle -> Active transition, the first chunk the producer *)
(* commits is read from frame 0 at offset 0 and is stamped with the frame  *)
(* id bit at its default value.                                            *)
(***************************************************************************)
C9_FirstChunkFromStart ==
    [][(pc \in {"commit", "nak_commit"} /\ ProducerStep
          /\ status' = "SUCCESS" /\ firstPending) =>
          /\ frameIndex = 0
          /\ frameOffset = 0
          /\ BitSet(bufHdr1, CY_FX_UVC_HEADER_FRAME_ID)
               = BitSet(CY_FX_UVC_HEADER_DEFAULT_BFH, CY_FX_UVC_HEADER_FRAME_ID)
      ]_vars

(***************************************************************************)
(* C10 as claimed: once an acquire or a commit has failed while the        *)
(* controller was active, the producer goes to the halting error state.    *)
(***************************************************************************)
C10_FailureWhileActiveHalts ==
    [][(pc = "exiterr" /\ failure = "active" /\ ProducerStep) => pc' = "halt"]_vars

(***************************************************************************)
(* C10 as amended: after a failed acquire or commit the producer does not  *)
(* retry but leaves the loop; if the controller is active when the         *)
(* producer tests the status behind the loop (line 781) it enters the      *)
(* halting error state, which is terminal: from then on it acquires and    *)
(* commits no buffer, whatever start and stop events follow.               *)
(***************************************************************************)
C10_HaltIsTerminal ==
    [][/\ (failure' # "none") =>
             pc' \in {"exiterr", "sm_read", "sm_wr_cur", "sm_wr_cfg", "nak_off", "post"}
       /\ (pc = "post" /\ status # "SUCCESS" /\ ProducerStep) => pc' = "exiterr"
       /\ (pc = "exiterr" /\ ProducerStep) =>
             (pc' = "halt" <=> (status # "SUCCESS" /\ glIsApplnActive))
       /\ pc = "halt" =>
             /\ pc' = "halt"
             /\ inflight' <= inflight
             /\ dmaHeld' = "cur" => dmaHeld = "cur"
      ]_vars

\* the producer is halted while the stream is active and a buffer is free
C10_Witness ==
    /\ pc = "halt"
    /\ glIsApplnActive /\ chState = "active"
    /\ inflight < CY_FX_UVC_STREAM_BUF_COUNT
    /\ firstPending


(***************************************************************************)
(* The frame store glUVCVidFrames: the frames lie one behind the other,    *)
(* frame i at the sum of the lengths of the frames before it.  A chunk     *)
(* copies the bytes from frameStart + frameOffset on (lines 676 and 725).  *)
(***************************************************************************)
RECURSIVE SumLen(_, _)
SumLen(frames, n) == IF n = 0 THEN 0 ELSE frames[n] + SumLen(frames, n - 1)

StoreSize == SumLen(glVidFrameLen, Len(glVidFrameLen))

\* first byte of the store the chunk in the buffer was copied from, and
\* the number of bytes copied
CopyFrom == frameStart + frameOffset
CopyLen == commitLength - CY_FX_UVC_MAX_HEADER

(***************************************************************************)
(* C11: after the final chunk of the last frame is committed the cursor is *)
(* frame 0, base offset 0, offset 0; and each committed chunk's payload    *)
(* starts in the frame store, taken cyclically, where the payload of the   *)
(* chunk before it ended: nothing is dropped, nothing is copied twice.     *)
(***************************************************************************)
C11_WrapKeepsRangesContiguous ==
    [][(pc = "post" /\ ProducerStep /\ status = "SUCCESS") =>
          /\ frameStart = SumLen(glVidFrameLen, frameIndex)
          /\ CopyLen > 0
          /\ CopyFrom + CopyLen <= frameStart + glVidFrameLen[frameIndex + 1]
          /\ (isEofChunk /\ frameIndex = CY_FX_UVC_MAX_VID_FRAMES - 1) =>
                (frameIndex' = 0 /\ frameStart' = 0 /\ frameOffset' = 0)
          /\ CopyFrom' = (CopyFrom + CopyLen) % StoreSize
      ]_vars

\* the final chunk of the last frame is committed, the cursor about to wrap
C11_Witness ==
    /\ pc = "post" /\ status = "SUCCESS"
    /\ isEofChunk
    /\ frameIndex = CY_FX_UVC_MAX_VID_FRAMES - 1
    /\ CopyFrom + CopyLen = StoreSize
    /\ frCnt = 2


(***************************************************************************)
(* The chunking on its own: the firmware of one of the builds, the stream  *)
(* started by the first SET_INTERFACE of the connection and no event after *)
(* it.  The thread runs its loop against the DMA callback until a call of  *)
(* the SDK fails.                                                          *)
(***************************************************************************)
Builds == {StoredBuild, ScenarioBuild}

ScenarioInit ==
    /\ build \in Builds
    /\ usbSpeed \in {"HS", "SS"}
    /\ glIsApplnActive = TRUE
    /\ CurrentMultVal = 1
    /\ glUVCHeader1 = CY_FX_UVC_HEADER_DEFAULT_BFH
    /\ uvcVideoEpCfg =
          [enable |-> TRUE,
           isoPkts |-> IF usbSpeed = "SS" THEN CY_FX_EP_ISO_VIDEO_SS_MULT ELSE 1,
           burstLen |-> IF usbSpeed = "SS" THEN CY_FX_EP_ISO_VIDEO_SS_BURST ELSE 1]
    /\ chState = "active"
    /\ inflight = 0
    /\ epEnabled = TRUE
    /\ cfgMult = uvcVideoEpCfg.isoPkts % 4
    /\ epNak = FALSE
    /\ pc = "reset"
    /\ status = "SUCCESS"
    /\ frameStart = 0
    /\ frameIndex = 0
    /\ frameOffset = 0
    /\ commitLength = 0
    /\ isEofChunk = FALSE
    /\ bufHdr1 = 0
    /\ dmaHeld = "none"
    /\ wake = FALSE
    /\ val2 = NoEpm
    /\ multVal = 0
    /\ frSum = 0
    /\ frCnt = 0
    /\ frEofs = 0
    /\ framesDone = 0
    /\ firstPending = TRUE
    /\ failure = "none"
    /\ cmpSnap = NoSnap

ScenarioNext ==
    \/ P_Reset
    \/ P_While
    \/ P_GetBuffer
    \/ P_GetBufferFails
    \/ P_GetBufferBlocks
    \/ P_GetBufferWakes
    \/ P_Fill
    \/ P_CompareMult
    \/ P_NakOn
    \/ P_NakCommit
    \/ P_Commit
    \/ P_SetMultRead
    \/ P_SetMultWriteCur
    \/ P_SetMultWriteCfg
    \/ P_NakOff
    \/ P_Post
    \/ CyFxAppErrorHandler
    \/ CyFxUVCAppDmaCallback

ScenarioSpec == ScenarioInit /\ [][ScenarioNext]_vars

\* chunks per frame that the scenario expects
ScenarioChunks == <<5, 1, 10>>

(***************************************************************************)
(* C12: with frames of 5000, 200 and 10000 bytes, 1000 bytes of payload    *)
(* per chunk and a header of 12 bytes, the producer commits 5 chunks for   *)
(* frame 0, one chunk of 212 bytes marked EOF for frame 1 and 10 chunks    *)
(* for frame 2, and the bytes committed for a frame are its length plus    *)
(* 12 for each of its chunks.                                              *)
(***************************************************************************)
C12_ScenarioChunkCounts ==
    (build = ScenarioBuild /\ AfterCommit /\ status = "SUCCESS") =>
        /\ frCnt <= ScenarioChunks[frameIndex + 1]
        /\ isEofChunk <=> (frCnt = ScenarioChunks[frameIndex + 1])
        /\ isEofChunk =>
              frSum = glVidFrameLen[frameIndex + 1] + (12 * ScenarioChunks[frameIndex + 1])
        /\ frameIndex = 1 =>
              (commitLength = 212 /\ BitSet(bufHdr1, CY_FX_UVC_HEADER_EOF))

\* the tenth and last chunk of frame 2 is committed
C12_Witness ==
    /\ build = ScenarioBuild
    /\ pc = "post" /\ status = "SUCCESS"
    /\ frameIndex = 2 /\ isEofChunk
    /\ frCnt = 10
    /\ frSum = 10000 + 120

(***************************************************************************)
(* C13 as claimed: with a frame of 5000 bytes, 1000 bytes of payload per   *)
(* chunk and a header of 12 bytes, the fifth and final chunk of the frame  *)
(* is a partial chunk with a commit length of 88 bytes.                    *)
(***************************************************************************)
C13_FinalChunkIs88 ==
    (build = ScenarioBuild /\ AfterCommit /\ status = "SUCCESS"
        /\ frameIndex = 0 /\ isEofChunk) =>
        (frCnt = 5 /\ commitLength = 88)

(***************************************************************************)
(* C13 as amended: with a frame of 5000 bytes, 1000 bytes of payload per   *)
(* chunk and a header of 12 bytes, the frame is committed in 5 chunks of   *)
(* 1012 bytes each: 4 intermediate chunks and a final chunk that carries   *)
(* the last 1000 bytes of the frame and is the one marked EOF.             *)
(***************************************************************************)
C13_FinalChunkIsFull ==
    (build = ScenarioBuild /\ AfterCommit /\ status = "SUCCESS" /\ frameIndex = 0) =>
        /\ commitLength = 1012
        /\ CopyLen = 1000
        /\ frCnt <= 5
        /\ isEofChunk <=> (frCnt = 5)
        /\ isEofChunk <=> (frameOffset = 4000)

\* the fifth chunk of frame 0 is committed with 1012 bytes
C13_Witness ==
    /\ build = ScenarioBuild
    /\ pc = "post" /\ status = "SUCCESS"
    /\ frameIndex = 0 /\ isEofChunk
    /\ frCnt = 5
    /\ commitLength = 1012


(***************************************************************************)
(* A step in which CyFxUVCApplnStart made the stream active although it    *)
(* was active and had committed chunks: only a successful start sets       *)
(* firstPending.                                                           *)
(***************************************************************************)
StartWhileActive == glIsApplnActive /\ ~firstPending /\ firstPending'

\* the endpoint configuration CyFxUVCApplnStart sets at the current speed
StartEpCfg ==
    [enable |-> TRUE,
     isoPkts |-> IF usbSpeed = "SS" THEN CY_FX_EP_ISO_VIDEO_SS_MULT ELSE 1,
     burstLen |-> IF usbSpeed = "SS" THEN CY_FX_EP_ISO_VIDEO_SS_BURST ELSE 1]

C15_StopIsIdempotent ==
    \A blocked \in BOOLEAN :
        LET once == CyFxUVCApplnStop(CtlState, blocked)
            twice == CyFxUVCApplnStop(once, blocked)
        IN  /\ twice = once
            /\ ~once.active
            /\ once.ch = "none"
            /\ once.inflight = 0
            /\ ~once.epOn
            /\ ~once.epCfg.enable
            /\ once.held # "cur"

\* a stream that had buffers in flight was stopped: the state a second
\* stop would find
C15_Witness ==
    /\ ~glIsApplnActive
    /\ chState = "none"
    /\ inflight = 0
    /\ ~epEnabled /\ ~uvcVideoEpCfg.enable
    /\ uvcVideoEpCfg.isoPkts = 1
    /\ dmaHeld = "stale"
    /\ CyFxUVCApplnStop(CtlState, FALSE) = [CtlState EXCEPT !.stopped = TRUE]


(***************************************************************************)
(* The state a failed CyFxUVCApplnStart leaves: the function has set       *)
(* uvcVideoEpCfg.enable (line 233) and returned before line 277.  Stop     *)
(* clears enable, a successful start sets the flag.                        *)
(***************************************************************************)
AfterFailedStart == uvcVideoEpCfg.enable /\ ~glIsApplnActive

(***************************************************************************)
(* C16: when CyFxUVCApplnStart fails at the endpoint configuration, at the *)
(* creation of the channel or at CyU3PDmaChannelSetXfer, the stream does   *)
(* not become active: the flag stays clear, no channel is ready for        *)
(* transfers, and the producer commits no chunk.  The flag is set only     *)
(* with the channel ready.                                                 *)
(***************************************************************************)
C16_FailedStartNotActive ==
    [][/\ (uvcVideoEpCfg'.enable /\ ~glIsApplnActive') =>
             (chState' # "active" /\ inflight' = 0)
       /\ glIsApplnActive' => chState' = "active"
       /\ (AfterFailedStart /\ ProducerStep) =>
             /\ inflight' = inflight
             /\ frCnt' <= frCnt
             /\ frSum' <= frSum
             /\ pc \in {"commit", "nak_commit"} => status' = "ERROR"
      ]_vars

\* CyU3PDmaChannelSetXfer failed in the start, and the commit the producer
\* tried on the channel failed
C16_Witness ==
    /\ AfterFailedStart
    /\ chState = "created"
    /\ epEnabled
    /\ pc = "post" /\ status = "ERROR" /\ failure = "idle"

StartStep ==
    /\ pc' = pc
    /\ glIsApplnActive' /\ firstPending'
    /\ ~glIsApplnActive \/ ~firstPending

\* the steps of the multiplier work-around in the thread, lines 690-697
WorkaroundPcs ==
    {"cmp", "nak_on", "nak_commit", "sm_read", "sm_wr_cur", "sm_wr_cfg", "nak_off"}

(***************************************************************************)
(* C18: at SuperSpeed the multiplier work-around is not exercised.  A      *)
(* start at SuperSpeed configures the endpoint with the static values      *)
(* CY_FX_EP_ISO_VIDEO_SS_MULT and CY_FX_EP_ISO_VIDEO_SS_BURST; the         *)
(* completion callback at SuperSpeed changes neither the NAK state, nor    *)
(* the MULT field, nor the programmed multiplier; and a chunk for which    *)
(* the producer reads SuperSpeed is committed directly, the producer       *)
(* changing none of the three: it enters the work-around only after it     *)
(* has read Hi-Speed, and only the work-around changes them.               *)
(***************************************************************************)
C18_NoWorkaroundAtSuperSpeed ==
    [][/\ (usbSpeed = "SS" /\ StartStep) =>
             /\ uvcVideoEpCfg'.isoPkts = CY_FX_EP_ISO_VIDEO_SS_MULT
             /\ uvcVideoEpCfg'.burstLen = CY_FX_EP_ISO_VIDEO_SS_BURST
             /\ cfgMult' = CY_FX_EP_ISO_VIDEO_SS_MULT % 4
             /\ UNCHANGED <<CurrentMultVal, epNak>>
       /\ (usbSpeed = "SS" /\ CallbackStep) => UNCHANGED <<epNak, cfgMult, CurrentMultVal>>
       /\ (usbSpeed = "SS" /\ pc = "fill" /\ ProducerStep) => pc' = "commit"
       /\ (pc' \in WorkaroundPcs /\ pc \notin WorkaroundPcs) =>
             (pc = "fill" /\ usbSpeed = "HS")
       /\ (ProducerStep /\ pc \notin WorkaroundPcs) =>
             UNCHANGED <<epNak, cfgMult, CurrentMultVal>>
      ]_vars

\* at SuperSpeed a full chunk was committed directly although the
\* programmed multiplier is not the one the chunk asks for
C18_Witness ==
    /\ usbSpeed = "SS"
    /\ pc = "post" /\ status = "SUCCESS"
    /\ commitLength = CY_FX_UVC_STREAM_BUF_SIZE
    /\ CurrentMultVal # ImpliedMult(commitLength, isEofChunk)
    /\ cmpSnap = NoSnap
    /\ ~epNak
    /\ uvcVideoEpCfg.isoPkts = CY_FX_EP_ISO_VIDEO_SS_MULT
    /\ cfgMult = CY_FX_EP_ISO_VIDEO_SS_MULT % 4
    /\ inflight = 0 /\ ~firstPending

\* the events that end the stream: a reset, a disconnect, or an interface
\* selection that is not the streaming alternate setting
StopEvents ==
    {ev \in EventInputs :
        \/ ev.evtype \in {"RESET", "DISCONNECT"}
        \/ /\ ev.evtype = "SETINTF"
           /\ ~(ev.interface = CY_FX_UVC_INTERFACE_VS /\ ev.altSetting # 0)}

(***************************************************************************)
(* C19: the stream becomes active only through a CyFxUVCApplnStart that    *)
(* ran to its end: the flag is set in a step of the event callback, with   *)
(* the channel ready and the endpoint configured.  And whenever the stream *)
(* is active, the event handler run on a reset, a disconnect or an         *)
(* interface selection that does not select the streaming alternate        *)
(* setting returns with the stream idle: the flag clear and the channel    *)
(* destroyed; the flag is cleared by no other step.                        *)
(***************************************************************************)
C19_ActiveOnlyByStartIdleByStopEvents ==
    [][/\ (~glIsApplnActive /\ glIsApplnActive') =>
             /\ pc' = pc
             /\ chState' = "active" /\ inflight' = 0
             /\ epEnabled' /\ uvcVideoEpCfg' = StartEpCfg
             /\ firstPending'
       /\ glIsApplnActive =>
             \A ev \in StopEvents : \A blocked \in BOOLEAN :
                 LET t == EventEffect(CtlState, ev, blocked)
                 IN  ~t.active /\ t.ch = "none" /\ t.inflight = 0 /\ ~t.epOn
       /\ (glIsApplnActive /\ ~glIsApplnActive') =>
             /\ pc' = pc
             /\ chState' # "active" /\ inflight' = 0
      ]_vars

\* the stream was stopped under a producer that had committed a chunk
C19_Witness ==
    /\ ~glIsApplnActive /\ chState = "none"
    /\ ~uvcVideoEpCfg.enable
    /\ ~firstPending
    /\ frCnt > 0
    /\ pc = "get"

(***************************************************************************)
(* C20: in every state CurrentMultVal is 1, 2 or 3 and, once the endpoint  *)
(* is configured and outside the two writes of a recompute, equals the     *)
(* multiplier last written to the configuration register.                  *)
(***************************************************************************)
C20_ProgrammedIsLastWritten ==
    /\ CurrentMultVal \in {1, 2, 3}
    /\ (epEnabled /\ pc # "sm_wr_cfg") => CurrentMultVal = cfgMult

(***************************************************************************)
(* The chunk in the buffer: from the fill to the update of the cursor the  *)
(* locals commitLength and isEofChunk describe the chunk that was built at *)
(* the cursor.                                                             *)
(***************************************************************************)
ChunkFilled ==
    pc \in {"cmp", "nak_on", "nak_commit", "commit",
            "sm_read", "sm_wr_cur", "sm_wr_cfg", "nak_off", "post"}

\* bytes of the current frame that are not sent yet
Remaining == glVidFrameLen[frameIndex + 1] - frameOffset

(***************************************************************************)
(* C21: a chunk is an intermediate chunk exactly when the bytes remaining  *)
(* of the frame (frame length - offset in the frame) are strictly more     *)
(* than buffer size - header length.  An intermediate chunk commits        *)
(* exactly the buffer size, a final chunk commits remaining + header       *)
(* length; so every commit length lies between the header length and the   *)
(* buffer size, and a frame whose length is an exact multiple of the       *)
(* payload capacity ends with an EOF chunk of the full buffer size, not    *)
(* with a chunk that holds a header only.                                  *)
(***************************************************************************)
C21_MidChunkRule ==
    ChunkFilled =>
        /\ ~isEofChunk <=>
              (Remaining > CY_FX_UVC_STREAM_BUF_SIZE - CY_FX_UVC_MAX_HEADER)
        /\ ~isEofChunk => commitLength = CY_FX_UVC_STREAM_BUF_SIZE
        /\ isEofChunk => commitLength = Remaining + CY_FX_UVC_MAX_HEADER
        /\ commitLength >= CY_FX_UVC_MAX_HEADER
        /\ commitLength <= CY_FX_UVC_STREAM_BUF_SIZE
        /\ (isEofChunk /\ glVidFrameLen[frameIndex + 1] % PayloadCap = 0) =>
              /\ commitLength = CY_FX_UVC_STREAM_BUF_SIZE
              /\ commitLength > CY_FX_UVC_MAX_HEADER

\* the frame of 6120 bytes, twice the payload of a buffer, was closed by an
\* EOF chunk of the full buffer size
C21_Witness ==
    /\ pc = "post" /\ status = "SUCCESS"
    /\ glVidFrameLen[frameIndex + 1] = 2 * PayloadCap
    /\ isEofChunk
    /\ frameOffset = PayloadCap
    /\ commitLength = CY_FX_UVC_STREAM_BUF_SIZE
    /\ frCnt = 2

(***************************************************************************)
(* C22: the producer enters the halting error state only if an acquire or  *)
(* a commit failed in the pass in progress while the stream was active and *)
(* the channel had not been destroyed by a stop; a status left over from   *)
(* an earlier pass that a stop ended never causes a halt, whenever a start *)
(* follows.                                                                *)
(***************************************************************************)
C22_HaltOnlyOnFailureWhileActive ==
    [][(pc = "exiterr" /\ pc' = "halt") => failure = "active"]_vars

\* the producer issues CyU3PDmaChannelCommitBuffer in this step
CommitStep == pc \in {"commit", "nak_commit"} /\ ProducerStep

(***************************************************************************)
(* C23: every commit the producer issues is made on the channel the buffer *)
(* it filled was acquired from: no chunk is committed to a channel that a  *)
(* start has created after the acquisition of the buffer.                  *)
(***************************************************************************)
C23_CommitOnChannelOfAcquire ==
    [][(CommitStep /\ chState \in {"created", "active"}) => dmaHeld = "cur"]_vars

(***************************************************************************)
(* The controller state behind each statement of CyFxUVCApplnStop, in the  *)
(* order of the source: the flag (line 288), the channel (line 291), the   *)
(* endpoint (lines 297-298).                                               *)
(***************************************************************************)
StopStages(s, blocked) ==
    LET s1 == [s EXCEPT !.active = FALSE]
        s2 == [s1 EXCEPT !.ch = "none",
                         !.inflight = 0,
                         !.held = IF s.held = "none" THEN "none" ELSE "stale",
                         !.wake = blocked \/ s.wake]
    IN  <<s, s1, s2, CyFxUVCApplnStop(s, blocked)>>

\* the channel exists and CyU3PDmaChannelSetXfer has set it up
PoolPrimed(s) == s.ch = "active" /\ s.inflight \in 0..CY_FX_UVC_STREAM_BUF_COUNT

(***************************************************************************)
(* C24: in every reachable state in which the active flag is set the DMA   *)
(* channel exists and is set up for transfers.  CyFxUVCApplnStart sets the *)
(* flag only behind the creation and the set-up of the channel, so a start *)
(* that returns early, called as the event handler calls it (line 336,     *)
(* behind the stop of an active stream), leaves the flag clear;            *)
(* CyFxUVCApplnStop clears the flag before it destroys the channel, so no  *)
(* statement of it leaves the flag set without the channel.                *)
(***************************************************************************)
C24_ActiveImpliesPool ==
    /\ glIsApplnActive => PoolPrimed(CtlState)
    /\ \A fail \in StartFailures :
          LET s0 == IF glIsApplnActive
                    THEN CyFxUVCApplnStop(CtlState, pc = "blocked")
                    ELSE CtlState
              t == CyFxUVCApplnStart(s0, usbSpeed, fail)
          IN  /\ t.active => PoolPrimed(t)
              /\ t.active <=> fail = "none"
    /\ \A blocked \in BOOLEAN :
          LET st == StopStages(CtlState, blocked)
          IN  /\ \A i \in 1..Len(st) : st[i].active => PoolPrimed(st[i])
              /\ \A i \in 2..Len(st) : ~st[i].active

\* the stream is active on a channel created by a restart, under a
\* producer that still holds a buffer of the channel destroyed
C24_Witness ==
    /\ glIsApplnActive
    /\ chState = "active"
    /\ firstPending /\ inflight = 0
    /\ dmaHeld = "stale"
    /\ pc = "fill"
    /\ frCnt > 0

\* an invocation of CyFxUvcAppSetMultByEpm by the producer has read the
\* registers and not yet written both values back
RecomputeInProgress == pc \in {"sm_wr_cur", "sm_wr_cfg"}

(***************************************************************************)
(* C25: whenever no invocation of CyFxUvcAppSetMultByEpm is in progress,   *)
(* the MULT field of the configuration register of the endpoint equals     *)
(* CurrentMultVal clamped to 1..3, also when the completion callback       *)
(* preempts the recompute of the producer.                                 *)
(***************************************************************************)
C25_RegisterIsClampedCache ==
    (epEnabled /\ ~RecomputeInProgress) => cfgMult = Clamp(CurrentMultVal, 1, 3)

\* the producer is between CyU3PUsbSetEpNak (CyTrue) and
\* CyU3PUsbSetEpNak (CyFalse), lines 692-697 and 742-747
QuiescePcs == {"nak_commit", "sm_read", "sm_wr_cur", "sm_wr_cfg", "nak_off"}

\* the statement that follows each statement of the sequence
QuiesceNext ==
    [p \in {"nak_on"} \cup QuiescePcs |->
        CASE p = "nak_on" -> "nak_commit"
          [] p = "nak_commit" -> "sm_read"
          [] p = "sm_read" -> "sm_wr_cur"
          [] p = "sm_wr_cur" -> "sm_wr_cfg"
          [] p = "sm_wr_cfg" -> "nak_off"
          [] OTHER -> "post"]

(***************************************************************************)
(* C26: the endpoint is in the NAK state only while the producer is inside *)
(* its quiesce sequence.  Once the producer has set the NAK state it runs  *)
(* the sequence to its end, whatever the commit returns and whether or not *)
(* a stop runs meanwhile, and clears the NAK state before it tests the     *)
(* status: the endpoint is never in the NAK state when the producer        *)
(* acquires a buffer or leaves the loop.                                   *)
(***************************************************************************)
C26_NakOnlyInsideQuiesce ==
    [][/\ epNak' <=> (pc' \in QuiescePcs)
       /\ (pc \in ({"nak_on"} \cup QuiescePcs) /\ ProducerStep) => pc' = QuiesceNext[pc]
       /\ (pc = "nak_off" /\ ProducerStep) => ~epNak'
       /\ (pc' \in {"while", "get", "blocked", "exiterr", "halt", "sleep", "reset"}) => ~epNak'
      ]_vars

\* a stop destroyed the channel while the endpoint was in the NAK state,
\* the commit inside the sequence failed, and the producer has gone on to
\* the statement that clears the NAK state
C26_Witness ==
    /\ pc = "nak_off" /\ epNak
    /\ status = "ERROR" /\ failure = "idle"
    /\ ~glIsApplnActive /\ chState = "none"
    /\ dmaHeld = "stale"

\* the number of bytes CyU3PMemCopy reads from CopyFrom on for the chunk at
\* the cursor (lines 675-677 and 724-726)
FillLen == IF IsMidChunk(frameOffset, frameIndex) THEN PayloadCap ELSE Remaining

(***************************************************************************)
(* C27: at every point of the loop of the producer the cursor satisfies    *)
(* frame index < number of frames, offset in the frame <= length of the    *)
(* current frame, and base offset = sum of the lengths of the frames       *)
(* before the current one; hence every copy of payload reads only bytes    *)
(* inside the range of the current frame in the frame store.  The cursor   *)
(* is local to the thread; the update of lines 767-776 is one step.        *)
(***************************************************************************)
C27_CursorInvariant ==
    /\ frameIndex \in 0..(CY_FX_UVC_MAX_VID_FRAMES - 1)
    /\ frameOffset >= 0
    /\ frameOffset <= glVidFrameLen[frameIndex + 1]
    /\ frameStart = SumLen(glVidFrameLen, frameIndex)
    /\ pc = "fill" =>
          /\ FillLen > 0
          /\ CopyFrom >= frameStart
          /\ CopyFrom + FillLen <= frameStart + glVidFrameLen[frameIndex + 1]
          /\ CopyFrom + FillLen <= StoreSize

\* the producer is about to copy the last bytes of the frame store: the
\* second chunk of the last frame
C27_Witness ==
    /\ pc = "fill" /\ dmaHeld = "cur"
    /\ frameIndex = CY_FX_UVC_MAX_VID_FRAMES - 1
    /\ frameOffset = PayloadCap
    /\ frameStart = 8220 + 200
    /\ CopyFrom + FillLen = StoreSize

(***************************************************************************)
(* The running stream under its scheduling.  The application thread is     *)
(* the only thread of its priority and every wait of it is bounded         *)
(* (CyU3PThreadSleep, CyU3PBusyWait) or ends when a buffer is drained, so  *)
(* a step of it that stays possible is taken; the host polls the           *)
(* isochronous endpoint in every microframe, so a committed buffer is      *)
(* drained and the DMA callback is raised.                                 *)
(***************************************************************************)
LiveSpec ==
    /\ ScenarioSpec
    /\ WF_vars(Producer)
    /\ WF_vars(CyFxUVCAppDmaCallback)

\* the producer has committed the EOF chunk of frame i
EofCommitted(i) ==
    /\ pc = "post" /\ status = "SUCCESS"
    /\ isEofChunk /\ frameIndex = i

\* the producer is in its loop on a chunk of frame i
Streaming(i) == (pc \in {"get", "blocked", "fill"} \/ ChunkFilled) /\ frameIndex = i

(***************************************************************************)
(* C28: while the stream stays active, if every acquire and every commit   *)
(* succeeds and the hardware eventually drains every committed buffer,     *)
(* the producer eventually commits the EOF chunk of the frame it is        *)
(* streaming, and so streams each frame of the playlist again and again.   *)
(***************************************************************************)
C28_EveryFrameInfinitelyOften ==
    [](glIsApplnActive /\ status = "SUCCESS") =>
        /\ Streaming(0) ~> EofCommitted(0)
        /\ Streaming(1) ~> EofCommitted(1)
        /\ Streaming(2) ~> EofCommitted(2)
        /\ []<>EofCommitted(0)
        /\ []<>EofCommitted(1)
        /\ []<>EofCommitted(2)

\* the playlist was streamed to its end and the EOF chunk of frame 0 is
\* committed a second time: the frame id of the template has toggled four
\* times
C28_Witness ==
    /\ EofCommitted(0)
    /\ glUVCHeader1 = CY_FX_UVC_HEADER_DEFAULT_BFH
    /\ inflight = CY_FX_UVC_STREAM_BUF_COUNT
    /\ ~firstPending

====
